---- MODULE Spec2Model ----
(***************************************************************************)
(* Model of app.py: the natural-language-to-SQL assistant.                 *)
(*                                                                         *)
(* Text is a sequence of one-character strings, so that str.replace,       *)
(* str.strip, str.split and str.startswith are computed character by       *)
(* character as Python computes them.                                      *)
(*                                                                         *)
(* Three specifications share the module:                                  *)
(*   Spec       the Flask handlers (index, generate, refine) with the      *)
(*              session, stepping at every external call;                  *)
(*   SpecParser the response parser applied to bounded completion texts;   *)
(*   SpecClean  the two fence-stripping functions applied to bounded       *)
(*              strings.                                                   *)
(***************************************************************************)
EXTENDS Integers, Sequences, FiniteSets, TLC

VARIABLES
    session,      \* Flask session: a mapping with keys among user_query, sql_info
    pc,           \* position of the request being served
    handler,      \* which handler / branch serves (served) the request
    user_query,   \* local of generate / refine
    sql_info,     \* local of refine (confirm branch)
    df_results,   \* local of refine: the executor's return value
    openConns,    \* number of database connections currently open
    calls,        \* external calls issued by the current (last) request, in order
    response,     \* what the last request returned to the client
    error,        \* the external call that failed in the current (last) request
    hist,         \* history: the most recent generate / modify actions
    text,         \* SpecParser: the completion text handed to the parser
    nlines,       \* SpecParser: number of lines of text
    parsed,       \* SpecParser: the parser's return value
    raw,          \* SpecClean: the string handed to the cleaners
    npieces,      \* SpecClean: number of pieces raw was built from
    cleaned       \* SpecClean: the cleaners' return values

appVars    == <<session, pc, handler, user_query, sql_info, df_results,
                openConns, calls, response, error, hist>>
parserVars == <<text, nlines, parsed>>
cleanVars  == <<raw, npieces, cleaned>>
vars       == <<session, pc, handler, user_query, sql_info, df_results,
                openConns, calls, response, error, hist,
                text, nlines, parsed, raw, npieces, cleaned>>

----------------------------------------------------------------------------
(* Bounds *)

MaxLines      == 3   \* lines of a completion text in SpecParser
ResponseLines == 2   \* lines of a completion text in Spec
MaxPieces     == 4   \* pieces of a string in SpecClean

----------------------------------------------------------------------------
(* Characters and literals *)

\* the grave accent (backtick) of a markdown fence; the character cannot be
\* written inside a string literal of the language, so it is named
BT == "<backtick>"
NL == "\n"
SP == " "
Whitespace == {" ", "\n", "\t", "\r"}

FENCE      == <<BT, BT, BT>>
FENCE_SQL  == <<BT, BT, BT, "s", "q", "l">>
FENCE_HTML == <<BT, BT, BT, "h", "t", "m", "l">>

QUERY_MARK       == <<"Q", "U", "E", "R", "Y", ":">>
EXPLANATION_MARK == <<"E", "X", "P", "L", "A", "N", "A", "T", "I", "O", "N", ":">>
ANALYSIS_MARK    == <<"A", "N", "A", "L", "Y", "S", "I", "S", "_",
                      "P", "O", "I", "N", "T", "S", ":">>

----------------------------------------------------------------------------
(* Python string methods *)

StartsWith(str, prefix) ==
    /\ Len(str) >= Len(prefix)
    /\ SubSeq(str, 1, Len(prefix)) = prefix

\* str.replace(old, ""): left to right, non-overlapping occurrences
RECURSIVE Replace(_, _)
Replace(str, old) ==
    IF Len(str) < Len(old) THEN str
    ELSE IF StartsWith(str, old)
         THEN Replace(SubSeq(str, Len(old) + 1, Len(str)), old)
         ELSE <<Head(str)>> \o Replace(Tail(str), old)

RECURSIVE LStrip(_)
LStrip(str) ==
    IF str # <<>> /\ Head(str) \in Whitespace THEN LStrip(Tail(str)) ELSE str

RECURSIVE RStrip(_)
RStrip(str) ==
    IF str # <<>> /\ str[Len(str)] \in Whitespace
    THEN RStrip(SubSeq(str, 1, Len(str) - 1))
    ELSE str

Strip(str) == RStrip(LStrip(str))

\* str.split on the newline character
RECURSIVE Split(_)
Split(str) ==
    IF \E i \in 1..Len(str) : str[i] = NL
    THEN LET i == CHOOSE k \in 1..Len(str) :
                      /\ str[k] = NL
                      /\ \A j \in 1..(k - 1) : str[j] # NL
         IN  <<SubSeq(str, 1, i - 1)>> \o Split(SubSeq(str, i + 1, Len(str)))
    ELSE <<str>>

----------------------------------------------------------------------------
(* clean_sql_query / clean_html_query *)

clean_sql_query_keepfence(sql_query) ==
    Strip(Replace(sql_query, FENCE_SQL))

clean_sql_query(sql_query) ==
    Strip(Replace(Replace(sql_query, FENCE_SQL), FENCE))

clean_html_query_keepfence(sql_query) ==
    Strip(Replace(sql_query, FENCE_HTML))

clean_html_query(sql_query) ==
    Strip(Replace(Replace(sql_query, FENCE_HTML), FENCE))

----------------------------------------------------------------------------
(* The parser of generate_sql_with_explanation *)

EmptyBuffers == [sql_query |-> <<>>, explanation |-> <<>>, analysis_points |-> <<>>]

Accumulate(buf, current_section, line) ==
    IF current_section = "query"
    THEN [buf EXCEPT !.sql_query = @ \o Strip(line) \o <<SP>>]
    ELSE IF current_section = "explanation"
    THEN [buf EXCEPT !.explanation = @ \o Strip(line) \o <<SP>>]
    ELSE IF current_section = "analysis"
    THEN [buf EXCEPT !.analysis_points = @ \o Strip(line) \o <<SP>>]
    ELSE buf

RECURSIVE ParseLines(_, _, _)
ParseLines(parts, current_section, buf) ==
    IF parts = <<>> THEN buf
    ELSE LET line == Head(parts) IN
         IF StartsWith(line, QUERY_MARK)
         THEN ParseLines(Tail(parts), "query", buf)
         ELSE IF StartsWith(line, EXPLANATION_MARK)
         THEN ParseLines(Tail(parts), "explanation", buf)
         ELSE IF StartsWith(line, ANALYSIS_MARK)
         THEN ParseLines(Tail(parts), "analysis", buf)
         ELSE ParseLines(Tail(parts), current_section,
                         Accumulate(buf, current_section, line))

BuildInfo(buf) ==
    [query           |-> clean_sql_query(buf.sql_query),
     explanation     |-> Strip(buf.explanation),
     analysis_points |-> clean_html_query(Strip(buf.analysis_points))]

generate_sql_with_explanation_leading(response_text) ==
    BuildInfo(ParseLines(Split(response_text), "query", EmptyBuffers))

\* the value returned for the completion text response_text
generate_sql_with_explanation(response_text) ==
    BuildInfo(ParseLines(Split(response_text), "", EmptyBuffers))

----------------------------------------------------------------------------
(* Inputs of the text specifications *)

Concat(a, b) == a \o b

\* line tails: text that follows a marker on its line, or a whole line
Tails ==
    { <<>>,
      <<" ", "a", " ">>,
      FENCE_SQL,
      FENCE_HTML \o <<"b">> \o FENCE,
      <<" ">> \o QUERY_MARK \o <<"c">> }

Markers == { <<>>, QUERY_MARK, EXPLANATION_MARK, ANALYSIS_MARK }

LineSet == { Concat(m, t) : m \in Markers, t \in Tails }

Pieces ==
    { <<BT>>, FENCE, FENCE_SQL, FENCE_HTML,
      <<"s", "q", "l">>, <<"h", "t", "m", "l">>, <<" ">>, <<"x">> }

\* the lines of the completion texts of Spec
ResponseTails == { <<>>, <<" ", "a", " ">>, FENCE_HTML \o <<"b">> \o FENCE }

ResponseLineSet == { Concat(m, t) : m \in Markers, t \in ResponseTails }

RECURSIVE TextsOf(_)
TextsOf(n) ==
    IF n = 1 THEN ResponseLineSet
    ELSE LET shorter == TextsOf(n - 1)
         IN  shorter \cup { t \o <<NL>> \o l : t \in shorter, l \in ResponseLineSet }

\* the completion texts the model may return in Spec
Responses == TextsOf(ResponseLines)

Unset == [k \in {} |-> <<>>]

----------------------------------------------------------------------------
(* State of the application *)

None == "None"
DataFrames == {"df_empty", "df_rows"}
UserQueries == {"q1", "q2"}
NoError == [call |-> "none", kind |-> "none"]
NoResponse == [kind |-> "none", exc |-> "none", analysis |-> <<>>]
NoHist == [generated |-> FALSE, query |-> "", proposed |-> FALSE,
           returned |-> FALSE, info |-> Unset]

HasKey(d, k) == k \in DOMAIN d

\* d[k] = v
SetItem(d, k, v) == [x \in (DOMAIN d) \cup {k} |-> IF x = k THEN v ELSE d[x]]

\* d.get(k, default)
Get(d, k, default) == IF k \in DOMAIN d THEN d[k] ELSE default

AppInit ==
    /\ session = Unset
    /\ pc = "idle"
    /\ handler = "none"
    /\ user_query = ""
    /\ sql_info = Unset
    /\ df_results = None
    /\ openConns = 0
    /\ calls = <<>>
    /\ response = NoResponse
    /\ error = NoError
    /\ hist = NoHist

ParserIdle == text = <<>> /\ nlines = 0 /\ parsed = Unset
CleanIdle  == raw = <<>> /\ npieces = 0 /\ cleaned = Unset

----------------------------------------------------------------------------
(* SpecClean: the cleaners applied to strings built from Pieces *)

CleanInit ==
    /\ AppInit
    /\ ParserIdle
    /\ raw \in Pieces \cup {<<>>}
    /\ npieces = 1
    /\ cleaned = Unset

AppendPiece(p) ==
    /\ cleaned = Unset
    /\ npieces < MaxPieces
    /\ raw' = raw \o p
    /\ npieces' = npieces + 1
    /\ UNCHANGED <<cleaned, appVars, parserVars>>

ApplyClean ==
    /\ cleaned = Unset
    /\ cleaned' = [sql |-> clean_sql_query(raw), html |-> clean_html_query(raw)]
    /\ UNCHANGED <<raw, npieces, appVars, parserVars>>

CleanNext ==
    \/ \E p \in Pieces : AppendPiece(p)
    \/ ApplyClean

SpecClean == CleanInit /\ [][CleanNext]_vars

----------------------------------------------------------------------------
(* SpecParser: the parser applied to texts built from LineSet *)

ParserInit ==
    /\ AppInit
    /\ CleanIdle
    /\ text \in LineSet
    /\ nlines = 1
    /\ parsed = Unset

AppendLine(l) ==
    /\ parsed = Unset
    /\ nlines < MaxLines
    /\ text' = text \o <<NL>> \o l
    /\ nlines' = nlines + 1
    /\ UNCHANGED <<parsed, appVars, cleanVars>>

ApplyParser ==
    /\ parsed = Unset
    /\ parsed' = generate_sql_with_explanation(text)
    /\ UNCHANGED <<text, nlines, appVars, cleanVars>>

ParserNext ==
    \/ \E l \in LineSet : AppendLine(l)
    \/ ApplyParser

SpecParser == ParserInit /\ [][ParserNext]_vars

----------------------------------------------------------------------------
(* Spec: the request handlers.  A handler runs from "idle" to "idle" and stops *)
(* at each external call, whose outcome (a return value or an exception) is    *)
(* chosen by the environment.  An exception no handler code catches ends the   *)
(* request with response.kind = "exception".                                   *)

\* the completion texts the summarizer's call may return
AnalysisTexts == Tails

Raised(exc) == [kind |-> "exception", exc |-> exc, analysis |-> <<>>]
Rendered(template, analysis) == [kind |-> template, exc |-> "none", analysis |-> analysis]
Redirect == [kind |-> "redirect", exc |-> "none", analysis |-> <<>>]

\* index(): GET /
index ==
    /\ pc = "idle"
    /\ handler' = "index"
    /\ response' = Rendered("index.html", <<>>)
    /\ calls' = <<>>
    /\ error' = NoError
    /\ user_query' = ""
    /\ sql_info' = Unset
    /\ df_results' = None
    /\ UNCHANGED <<session, pc, openConns, hist, parserVars, cleanVars>>

\* generate(): POST /generate, up to the completion call
generate(q) ==
    /\ pc = "idle"
    /\ handler' = "generate"
    /\ user_query' = q
    /\ session' = SetItem(session, "user_query", q)
    /\ pc' = "generate_content"
    /\ calls' = <<"generate_content">>
    /\ error' = NoError
    /\ response' = NoResponse
    /\ sql_info' = Unset
    /\ df_results' = None
    /\ hist' = [generated |-> TRUE, query |-> q, proposed |-> TRUE,
                returned |-> FALSE, info |-> Unset]
    /\ UNCHANGED <<openConns, parserVars, cleanVars>>

\* refine() with action = "modify", up to the completion call; the feedback
\* text only enters the prompt
refine_modify ==
    /\ pc = "idle"
    /\ handler' = "modify"
    /\ user_query' = Get(session, "user_query", "")
    /\ pc' = "generate_content"
    /\ calls' = <<"generate_content">>
    /\ error' = NoError
    /\ response' = NoResponse
    /\ sql_info' = Unset
    /\ df_results' = None
    /\ hist' = [hist EXCEPT !.proposed = TRUE, !.returned = FALSE, !.info = Unset]
    /\ UNCHANGED <<session, openConns, parserVars, cleanVars>>

\* the completion call of generate_sql_with_explanation returns response_text:
\* the handler parses it, stores the result and renders result.html
generate_content_returns(response_text) ==
    /\ pc = "generate_content"
    /\ LET info == generate_sql_with_explanation(response_text) IN
        /\ session' = SetItem(session, "sql_info", info)
        /\ hist' = [hist EXCEPT !.returned = TRUE, !.info = info]
    /\ response' = Rendered("result.html", <<>>)
    /\ pc' = "idle"
    /\ UNCHANGED <<handler, user_query, sql_info, df_results, openConns, calls,
                   error, parserVars, cleanVars>>

\* the completion call of generate_sql_with_explanation raises: nothing
\* catches it
generate_content_raises ==
    /\ pc = "generate_content"
    /\ error' = [call |-> "generate_content", kind |-> "api"]
    /\ response' = Raised("APIError")
    /\ pc' = "idle"
    /\ UNCHANGED <<session, handler, user_query, sql_info, df_results, openConns,
                   calls, hist, parserVars, cleanVars>>

\* refine() with action = "confirm", up to psycopg2.connect; indexing the
\* default {} of session.get with "query" raises KeyError
refine_confirm ==
    /\ pc = "idle"
    /\ handler' = "confirm"
    /\ user_query' = Get(session, "user_query", "")
    /\ sql_info' = Get(session, "sql_info", Unset)
    /\ df_results' = None
    /\ error' = NoError
    /\ IF HasKey(Get(session, "sql_info", Unset), "query")
       THEN /\ pc' = "connect"
            /\ calls' = <<"connect">>
            /\ response' = NoResponse
       ELSE /\ pc' = "idle"
            /\ calls' = <<>>
            /\ response' = Raised("KeyError")
    /\ UNCHANGED <<session, openConns, hist, parserVars, cleanVars>>

\* refine() with any other action: falls through to the redirect
refine_other ==
    /\ pc = "idle"
    /\ handler' = "other"
    /\ user_query' = Get(session, "user_query", "")
    /\ sql_info' = Unset
    /\ df_results' = None
    /\ error' = NoError
    /\ calls' = <<>>
    /\ response' = Redirect
    /\ UNCHANGED <<session, pc, openConns, hist, parserVars, cleanVars>>

\* execute_sql_query: psycopg2.connect returns a connection
connect_returns ==
    /\ pc = "connect"
    /\ openConns' = openConns + 1
    /\ pc' = "execute"
    /\ calls' = Append(calls, "execute")
    /\ UNCHANGED <<session, handler, user_query, sql_info, df_results, response,
                   error, hist, parserVars, cleanVars>>

\* execute_sql_query: psycopg2.connect raises, before the try block
connect_raises ==
    /\ pc = "connect"
    /\ error' = [call |-> "connect", kind |-> "connection"]
    /\ response' = Raised("OperationalError")
    /\ pc' = "idle"
    /\ UNCHANGED <<session, handler, user_query, sql_info, df_results, openConns,
                   calls, hist, parserVars, cleanVars>>

\* execute_sql_query: the try block completes and returns the DataFrame df
execute_returns(df) ==
    /\ pc = "execute"
    /\ df_results' = df
    /\ pc' = "finally"
    /\ calls' = Append(calls, "close")
    /\ UNCHANGED <<session, handler, user_query, sql_info, openConns, response,
                   error, hist, parserVars, cleanVars>>

ExecutionErrors == {"connection", "syntax", "permission"}

execute_raises_unclosed(kind) ==
    /\ pc = "execute"
    /\ df_results' = None
    /\ error' = [call |-> "execute", kind |-> kind]
    /\ pc' = "idle"
    /\ response' = Redirect
    /\ UNCHANGED <<session, handler, user_query, sql_info, openConns, calls,
                   hist, parserVars, cleanVars>>

\* execute_sql_query: a statement of the try block raises; the except clause
\* returns None
execute_raises(kind) ==
    /\ pc = "execute"
    /\ df_results' = None
    /\ error' = [call |-> "execute", kind |-> kind]
    /\ pc' = "finally"
    /\ calls' = Append(calls, "close")
    /\ UNCHANGED <<session, handler, user_query, sql_info, openConns, response,
                   hist, parserVars, cleanVars>>

always_analyze(df) == "analyze_results"

\* refine(): where control goes once execute_sql_query has returned df
after_execute(df) == IF df # None THEN "analyze_results" ELSE "redirect"

\* execute_sql_query: the finally clause closes the connection and the call
\* returns to refine(), which calls the summarizer or falls to the redirect
conn_close ==
    /\ pc = "finally"
    /\ openConns' = openConns - 1
    /\ IF after_execute(df_results) = "analyze_results"
       THEN /\ pc' = "analyze_results"
            /\ calls' = Append(calls, "analyze_results")
            /\ UNCHANGED response
       ELSE /\ pc' = "idle"
            /\ response' = Redirect
            /\ UNCHANGED calls
    /\ UNCHANGED <<session, handler, user_query, sql_info, df_results, error,
                   hist, parserVars, cleanVars>>

\* the completion call of analyze_results returns analysis: refine() renders
\* results.html with the cleaned text
analyze_returns(analysis) ==
    /\ pc = "analyze_results"
    /\ response' = Rendered("results.html", clean_html_query(analysis))
    /\ pc' = "idle"
    /\ UNCHANGED <<session, handler, user_query, sql_info, df_results, openConns,
                   calls, error, hist, parserVars, cleanVars>>

\* the completion call of analyze_results raises: nothing catches it
analyze_raises ==
    /\ pc = "analyze_results"
    /\ error' = [call |-> "analyze_results", kind |-> "api"]
    /\ response' = Raised("APIError")
    /\ pc' = "idle"
    /\ UNCHANGED <<session, handler, user_query, sql_info, df_results, openConns,
                   calls, hist, parserVars, cleanVars>>

Init == AppInit /\ ParserIdle /\ CleanIdle

Next ==
    \/ index
    \/ \E q \in UserQueries : generate(q)
    \/ refine_modify
    \/ \E t \in Responses : generate_content_returns(t)
    \/ generate_content_raises
    \/ refine_confirm
    \/ refine_other
    \/ connect_returns
    \/ connect_raises
    \/ \E df \in DataFrames : execute_returns(df)
    \/ \E kind \in ExecutionErrors : execute_raises(kind)
    \/ conn_close
    \/ \E t \in AnalysisTexts : analyze_returns(t)
    \/ analyze_raises

Spec == Init /\ [][Next]_vars

----------------------------------------------------------------------------
(* Properties *)

Range(seq) == { seq[i] : i \in DOMAIN seq }

\* sub occurs in str
Contains(str, sub) ==
    \E i \in 1..(Len(str) - Len(sub) + 1) : SubSeq(str, i, i + Len(sub) - 1) = sub

StartsWithMarker(line) ==
    \/ StartsWith(line, QUERY_MARK)
    \/ StartsWith(line, EXPLANATION_MARK)
    \/ StartsWith(line, ANALYSIS_MARK)

\* the indexes of the lines that start with mark
MarkerLines(ls, mark) == { i \in DOMAIN ls : StartsWith(ls[i], mark) }

\* each marker starts exactly one line, in the order QUERY, EXPLANATION,
\* ANALYSIS_POINTS
ThreeSectionsInOrder(ls) ==
    \E iq, ie, ia \in DOMAIN ls :
        /\ iq < ie /\ ie < ia
        /\ MarkerLines(ls, QUERY_MARK) = {iq}
        /\ MarkerLines(ls, EXPLANATION_MARK) = {ie}
        /\ MarkerLines(ls, ANALYSIS_MARK) = {ia}

RECURSIVE JoinStripped(_)
JoinStripped(ls) ==
    IF ls = <<>> THEN <<>>
    ELSE Strip(Head(ls)) \o <<SP>> \o JoinStripped(Tail(ls))

\* the text of the section that mark opens on line i and that ends before
\* line j: what follows the marker on its line, then the lines up to j - 1
SectionText(ls, mark, i, j) ==
    JoinStripped(<<SubSeq(ls[i], Len(mark) + 1, Len(ls[i]))>> \o SubSeq(ls, i + 1, j - 1))

SectionsOf(ls) ==
    LET iq == CHOOSE i \in DOMAIN ls : StartsWith(ls[i], QUERY_MARK)
        ie == CHOOSE i \in DOMAIN ls : StartsWith(ls[i], EXPLANATION_MARK)
        ia == CHOOSE i \in DOMAIN ls : StartsWith(ls[i], ANALYSIS_MARK)
    IN  [query           |-> clean_sql_query(SectionText(ls, QUERY_MARK, iq, ie)),
         explanation     |-> Strip(SectionText(ls, EXPLANATION_MARK, ie, ia)),
         analysis_points |-> clean_html_query(
                                 Strip(SectionText(ls, ANALYSIS_MARK, ia, Len(ls) + 1)))]

RECURSIVE JoinLines(_)
JoinLines(ls) ==
    IF ls = <<>> THEN <<>>
    ELSE IF Len(ls) = 1 THEN Head(ls)
    ELSE Head(ls) \o <<NL>> \o JoinLines(Tail(ls))

RECURSIVE DropLeading(_)
DropLeading(ls) ==
    IF ls = <<>> \/ StartsWithMarker(Head(ls)) THEN ls ELSE DropLeading(Tail(ls))

\* C1: a confirm in a session that holds no sql_info ends in the redirect to
\* the index state, having issued no external call (no query executed).
C1_ConfirmWithoutInfoRedirects ==
    (pc = "idle" /\ handler = "confirm" /\ ~HasKey(session, "sql_info"))
        => (response.kind = "redirect" /\ calls = <<>>)

\* C2: when the database call of a confirm request fails with a connection
\* error, the executor yields None and the request ends in the redirect.
C2_ConnectionErrorRedirects ==
    (pc = "idle" /\ handler = "confirm" /\ error.kind = "connection")
        => (df_results = None /\ response.kind = "redirect")

\* C3: the summarizer is called only in a confirm request whose executor call
\* has returned a DataFrame; a confirm request whose executor returned None
\* never calls the summarizer and ends in the redirect.
C3_SummarizerOnlyAfterResult ==
    /\ "analyze_results" \in Range(calls)
         => /\ handler = "confirm"
            /\ df_results # None
            /\ calls = <<"connect", "execute", "close", "analyze_results">>
    /\ (pc = "idle" /\ handler = "confirm" /\ "close" \in Range(calls)
            /\ df_results = None)
         => /\ "analyze_results" \notin Range(calls)
            /\ response.kind = "redirect"

C3_Witness ==
    /\ pc = "idle" /\ handler = "confirm"
    /\ error.call = "execute" /\ df_results = None
    /\ response.kind = "redirect"

\* C4: between requests the stored user_query is the text of the most recent
\* generate action and the stored sql_info is the result of the most recent
\* generate or modify action.
C4_SessionHoldsLatest ==
    pc = "idle" =>
        /\ hist.generated =>
              /\ HasKey(session, "user_query")
              /\ session["user_query"] = hist.query
        /\ hist.proposed =>
              /\ hist.returned
              /\ HasKey(session, "sql_info")
              /\ session["sql_info"] = hist.info

\* C5: for a text whose lines hold the three markers once each and in order,
\* the parser returns the text of each section (what follows the marker on
\* its line and the lines after it), trimmed and fence-stripped.
C5_ParserRecoversSections ==
    (parsed # Unset /\ ThreeSectionsInOrder(Split(text)))
        => parsed = SectionsOf(Split(text))

\* C6: a field whose marker starts no line of the text is the empty string,
\* and the lines before the first marker line contribute to no field: the
\* parser returns what it returns for the text without them.
C6_MissingSectionsEmpty ==
    parsed # Unset =>
        LET ls == Split(text) IN
        /\ MarkerLines(ls, QUERY_MARK) = {} => parsed.query = <<>>
        /\ MarkerLines(ls, EXPLANATION_MARK) = {} => parsed.explanation = <<>>
        /\ MarkerLines(ls, ANALYSIS_MARK) = {} => parsed.analysis_points = <<>>
        /\ parsed = generate_sql_with_explanation(JoinLines(DropLeading(ls)))

C6_Witness ==
    /\ parsed # Unset
    /\ LET ls == Split(text) IN
        /\ Len(ls) = 3
        /\ ~StartsWithMarker(ls[1]) /\ Strip(ls[1]) # <<>>
        /\ StartsWith(ls[2], EXPLANATION_MARK)
        /\ ~StartsWithMarker(ls[3]) /\ Strip(ls[3]) # <<>>
    /\ parsed.explanation # <<>>
    /\ parsed.query = <<>>

\* C7: the query of the sql_info stored in the session holds no code-fence
\* marker.
C7_StoredQueryHasNoFence ==
    HasKey(session, "sql_info") => ~Contains(session["sql_info"].query, FENCE)

C7_Witness ==
    /\ HasKey(session, "sql_info")
    /\ session["sql_info"].query = <<"h", "t", "m", "l", "b">>

\* C8: cleaning a cleaned string changes nothing, for both cleaners.
C8_CleanIdempotent ==
    cleaned # Unset =>
        /\ clean_sql_query(cleaned.sql) = cleaned.sql
        /\ clean_html_query(cleaned.html) = cleaned.html

C8_Witness ==
    /\ cleaned # Unset
    /\ Contains(Replace(raw, FENCE_SQL), FENCE_SQL)
    /\ cleaned.sql = <<"s", "q", "l">>

\* C9: a connection is open only while execute_sql_query runs its try block
\* or its finally clause, one at most; between requests, before the connect
\* and during the summarizer call none is open.
C9_ConnectionsClosed ==
    /\ openConns \in {0, 1}
    /\ pc \in {"idle", "connect", "generate_content", "analyze_results"}
         => openConns = 0
    /\ Cardinality({ i \in DOMAIN calls : calls[i] = "connect" }) <= 1

C9_Witness ==
    /\ pc = "idle" /\ handler = "confirm"
    /\ error.call = "execute"
    /\ calls = <<"connect", "execute", "close">>
    /\ openConns = 0

\* C10: no failure of an external call ends a request with an exception.
C10_NoFailurePropagates ==
    (pc = "idle" /\ error.call # "none") => response.kind # "exception"

====
